---- MODULE Spec2Model ----
(***************************************************************************)
(* Hospital records engine (Hospital_System_Management): the patient       *)
(* registry, the patient-number allocator, the room index, billing, the    *)
(* procedure ledger, the status lifecycle, departments and the persisted   *)
(* JSON document, driven through the options of HospitalSystem.main_menu.  *)
(*                                                                         *)
(* Encoding of Python values:                                              *)
(*   - a text that takes part in str()/int() conversions or in a lookup    *)
(*     (names, patient numbers, typed identifiers, ages) is a sequence of  *)
(*     glyphs, "1001" being <<"1","0","0","1">> and a word one glyph;      *)
(*   - a patient number is [t, v]: t is "int", "str" or "none" (the JSON   *)
(*     type), v the decimal glyphs of an int or the glyphs of a str;       *)
(*   - None in a string field is NoneStr, None in a room field is NoneRoom;*)
(*   - money is kept in hundredths of a unit (Scale), so that a whole      *)
(*     percentage of a whole amount is exact;                              *)
(*   - a JSON object is a record whose DOMAIN is its key set.              *)
(***************************************************************************)
EXTENDS Integers, Sequences, FiniteSets, TLC

VARIABLES
    patients,      \* HospitalSystem.patients: list of Patient objects
    rooms,         \* HospitalSystem.rooms: dict room number -> patient name
    departments,   \* HospitalSystem.departments: dict name -> Department
    detached,      \* Patient objects no longer in patients but still referenced
    db,            \* the content of db_file
    running,       \* the process is inside main_menu
    issued,        \* what generate_patient_number returned last
    last           \* the menu option handled last and how it ended

vars == <<patients, rooms, departments, detached, db, running, issued, last>>

----------------------------------------------------------------------------
(* Python values *)

NoneStr == "<None>"
NoneRoom == -1
Scale == 100

Digits == <<"0", "1", "2", "3", "4", "5", "6", "7", "8", "9">>
DigitChars == {Digits[i] : i \in 1..10}
DigitVal(c) == (CHOOSE i \in 1..10 : Digits[i] = c) - 1

\* str.isdigit()
isdigit(s) == Len(s) > 0 /\ \A i \in 1..Len(s) : s[i] \in DigitChars

\* int(s) for a text of digits
RECURSIVE ParseInt(_)
ParseInt(s) ==
    IF s = <<>> THEN 0
    ELSE 10 * ParseInt(SubSeq(s, 1, Len(s) - 1)) + DigitVal(s[Len(s)])

\* str(n) for a natural number
RECURSIVE FormatInt(_)
FormatInt(n) ==
    IF n < 10 THEN <<Digits[n + 1]>>
    ELSE Append(FormatInt(n \div 10), Digits[(n % 10) + 1])

NoneNum == [t |-> "none", v |-> <<>>]
StrNum(s) == [t |-> "str", v |-> s]
IntNum(n) == [t |-> "int", v |-> FormatInt(n)]

\* str(x) of a patient number
PyStr(x) == IF x.t = "none" THEN <<"None">> ELSE x.v

\* bool(x) of a patient number
Truthy(x) ==
    CASE x.t = "none" -> FALSE
      [] x.t = "str" -> x.v # <<>>
      [] x.t = "int" -> ParseInt(x.v) # 0

\* bool(room_number)
TruthyRoom(r) == r # NoneRoom /\ r # 0

\* a or b, for input texts and strings
OrElse(a, b) == IF a = "" THEN b ELSE a
OrElseText(a, b) == IF a = <<>> THEN b ELSE a

\* dict.get(key, default)
Get(d, key, default) == IF key \in DOMAIN d THEN d[key] ELSE default

SetMax(S) == CHOOSE m \in S : \A x \in S : x <= m

SeqRange(s) == {s[i] : i \in 1..Len(s)}

----------------------------------------------------------------------------
(* model/billing.py *)

Billing(amount, description, paid) ==
    [amount |-> amount, description |-> description, paid |-> paid]

\* mark_paid that leaves the flag as it is
mark_paid_Forgotten(b) == b

mark_paid(b) == [b EXCEPT !.paid = TRUE]

BillingToDict(b) ==
    [amount |-> b.amount, description |-> b.description, paid |-> b.paid]

\* from_dict that drops the stored flag
BillingFromDict_Unpaid(d) == Billing(d.amount, d.description, FALSE)

BillingFromDict(d) == Billing(d.amount, d.description, Get(d, "paid", FALSE))

\* the covered share returned instead of the share the patient owes
get_discounted_amount_Covered(amount, percent) == (percent * amount) \div 100

\* amount - (percent / 100) * amount, on amounts in hundredths
get_discounted_amount(amount, percent) ==
    LET discount == (percent * amount) \div 100
    IN  amount - discount

PlainDesc(text) == [kind |-> "plain", text |-> text, date |-> "", pct |-> 0]
\* f"{description} (after {coverage}% insurance discount)"
DiscountDesc(text, pct) == [kind |-> "discounted", text |-> text, date |-> "", pct |-> pct]
\* f"Procedure: {proc['description']} on {proc['date']}"
ProcedureDesc(text, date) == [kind |-> "procedure", text |-> text, date |-> date, pct |-> 0]

----------------------------------------------------------------------------
(* model/patient.py *)

EmptyKin == [isdict |-> TRUE, name |-> "", number |-> "", email |-> "", relation |-> ""]
NoneKin == [isdict |-> FALSE, name |-> "", number |-> "", email |-> "", relation |-> ""]
NoInsurance == [provider |-> "", policy_number |-> "", coverage_percent |-> 0]
NoneInsurance == [isnone |-> TRUE]

\* Patient.__init__: the next of kin and the insurance are made dicts with
\* the required keys, and every procedure gets a billed flag.
Patient(oid, name, age, condition, patient_number, phone_number, date_of_birth, gender, email, address, identifier, patient_next_of_kin, room_number, procedures, billing, status, register_date, discharge_date, date_of_death, insurance) ==
    [oid |-> oid,
     name |-> name,
     age |-> age,
     phone_number |-> phone_number,
     date_of_birth |-> date_of_birth,
     gender |-> gender,
     email |-> email,
     address |-> address,
     identifier |-> identifier,
     condition |-> condition,
     patient_number |-> patient_number,
     patient_next_of_kin |->
        IF patient_next_of_kin.isdict
        THEN [isdict |-> TRUE,
              name |-> Get(patient_next_of_kin, "name", ""),
              number |-> Get(patient_next_of_kin, "number", ""),
              email |-> Get(patient_next_of_kin, "email", ""),
              relation |-> Get(patient_next_of_kin, "relation", "")]
        ELSE EmptyKin,
     room_number |-> room_number,
     procedures |->
        [i \in 1..Len(procedures) |->
            [date |-> procedures[i].date,
             description |-> procedures[i].description,
             billed |-> Get(procedures[i], "billed", FALSE)]],
     billing |-> billing,
     status |-> status,
     register_date |-> register_date,
     discharge_date |-> discharge_date,
     date_of_death |-> date_of_death,
     insurance |->
        IF "isnone" \in DOMAIN insurance THEN NoInsurance
        ELSE [provider |-> Get(insurance, "provider", ""),
              policy_number |-> Get(insurance, "policy_number", ""),
              coverage_percent |-> Get(insurance, "coverage_percent", 0)]]

add_bill(p, bill) == [p EXCEPT !.billing = Append(@, bill)]

add_procedure(p, date, description) ==
    [p EXCEPT !.procedures =
        Append(@, [date |-> date, description |-> description, billed |-> FALSE])]

\* the flag left as it was
mark_procedure_billed_Forgotten(p, index) == p

mark_procedure_billed(p, index) ==
    IF 0 <= index /\ index < Len(p.procedures)
    THEN [p EXCEPT !.procedures[index + 1].billed = TRUE]
    ELSE p

\* Patient.to_dict
to_dict(p) ==
    [name |-> p.name,
     age |-> p.age,
     condition |-> p.condition,
     patient_number |-> p.patient_number,
     patient_next_of_kin |-> p.patient_next_of_kin,
     room_number |-> p.room_number,
     phone_number |-> p.phone_number,
     date_of_birth |-> p.date_of_birth,
     gender |-> p.gender,
     email |-> p.email,
     address |-> p.address,
     identifier |-> p.identifier,
     procedures |-> p.procedures,
     billing |-> [i \in 1..Len(p.billing) |-> BillingToDict(p.billing[i])],
     status |-> p.status,
     register_date |-> p.register_date,
     discharge_date |-> p.discharge_date,
     date_of_death |-> p.date_of_death,
     insurance |-> p.insurance]

\* Patient.from_dict; oid is the identity of the object it creates
from_dict(data, oid) ==
    LET bills == Get(data, "billing", <<>>)
        billing == [i \in 1..Len(bills) |-> BillingFromDict(bills[i])]
    IN  Patient(oid,
                data.name,
                data.age,
                data.condition,
                data.patient_number,
                data.phone_number,
                data.date_of_birth,
                data.gender,
                data.email,
                data.address,
                data.identifier,
                Get(data, "patient_next_of_kin", EmptyKin),
                Get(data, "room_number", NoneRoom),
                Get(data, "procedures", <<>>),
                billing,
                Get(data, "status", "normal"),
                Get(data, "register_date", NoneStr),
                Get(data, "discharge_date", NoneStr),
                Get(data, "date_of_death", NoneStr),
                Get(data, "insurance", NoInsurance))

----------------------------------------------------------------------------
(* model/staff.py, model/department.py *)

\* Staff.__init__ (Person.__init__ included); cls is the Python class
Staff(name, age, phone_number, date_of_birth, gender, email, address, identifier, position) ==
    [cls |-> "Staff",
     name |-> name,
     age |-> age,
     phone_number |-> phone_number,
     date_of_birth |-> date_of_birth,
     gender |-> gender,
     email |-> email,
     address |-> address,
     identifier |-> identifier,
     position |-> position,
     specialty |-> NoneStr,
     patients |-> <<>>,
     department |-> NoneStr]

\* Doctor.__init__
Doctor(name, age, phone_number, date_of_birth, gender, email, address, identifier, specialty) ==
    [Staff(name, age, phone_number, date_of_birth, gender, email, address,
           identifier, "Doctor")
        EXCEPT !.cls = "Doctor", !.specialty = specialty]

\* Nurse.__init__
Nurse(name, age, phone_number, date_of_birth, gender, email, address, identifier, department) ==
    [Staff(name, age, phone_number, date_of_birth, gender, email, address,
           identifier, "Nurse")
        EXCEPT !.cls = "Nurse", !.department = department]

\* Department.__init__: objs holds the staff objects the three lists refer
\* to (a doctor is one object in both doctors and staff); patients holds
\* the identities of Patient objects.
Department ==
    [objs |-> <<>>, doctors |-> <<>>, nurses |-> <<>>, staff |-> <<>>,
     patients |-> <<>>]

\* the identity given to the next staff object of a department
NewSid(dept) ==
    LET free == (1..(Cardinality(DOMAIN dept.objs) + 1)) \ DOMAIN dept.objs
    IN  CHOOSE k \in free : \A j \in free : k <= j

WithObj(dept, sid, obj) ==
    [dept EXCEPT !.objs = [k \in DOMAIN dept.objs \cup {sid} |->
                              IF k = sid THEN obj ELSE dept.objs[k]]]

\* Department.add_staff
add_staff(dept, obj) ==
    LET sid == NewSid(dept)
    IN  [WithObj(dept, sid, obj) EXCEPT !.staff = Append(@, sid)]

\* Department.add_doctor
add_doctor(dept, obj) ==
    LET sid == NewSid(dept)
    IN  [WithObj(dept, sid, obj) EXCEPT !.doctors = Append(@, sid),
                                        !.staff = Append(@, sid)]

\* Department.add_nurse
add_nurse(dept, obj) ==
    LET sid == NewSid(dept)
    IN  [WithObj(dept, sid, obj) EXCEPT !.nurses = Append(@, sid),
                                        !.staff = Append(@, sid)]

\* assign_patient_to_doctor that skips a patient the department already lists
assign_patient_to_doctor_Dedup(dept, oid, sid) ==
    IF sid \in SeqRange(dept.doctors) /\ oid \notin SeqRange(dept.patients)
    THEN [dept EXCEPT !.objs[sid].patients = Append(@, oid),
                      !.patients = Append(@, oid)]
    ELSE dept

\* Department.assign_patient_to_doctor (Doctor.add_patient included)
assign_patient_to_doctor(dept, oid, sid) ==
    IF sid \in SeqRange(dept.doctors)
    THEN [dept EXCEPT !.objs[sid].patients = Append(@, oid),
                      !.patients = Append(@, oid)]
    ELSE dept

\* the staff objects a department can still reach
LiveSids(dept) ==
    SeqRange(dept.doctors) \cup SeqRange(dept.nurses) \cup SeqRange(dept.staff)

Collect(dept) ==
    [dept EXCEPT !.objs = [k \in LiveSids(dept) |-> dept.objs[k]]]

----------------------------------------------------------------------------
(* core/hospital_system.py: the functions of HospitalSystem *)

BaseNumber == 1001

\* the integers generate_patient_number collects from the in-memory patients
MemoryNumbers(pats) ==
    {ParseInt(PyStr(pats[i].patient_number)) :
        i \in {j \in 1..Len(pats) : isdigit(PyStr(pats[j].patient_number))}}

\* the scan of the file left out
PersistedNumbers_Skipped(doc) == {}

\* ... and from the persisted document; an unreadable file adds nothing
PersistedNumbers(doc) ==
    IF doc.kind # "doc" THEN {}
    ELSE LET ps == Get(doc, "patients", <<>>)
             num(j) == Get(ps[j], "patient_number", NoneNum)
         IN  {ParseInt(PyStr(num(i))) :
                i \in {j \in 1..Len(ps) : Truthy(num(j)) /\ isdigit(PyStr(num(j)))}}

generate_patient_number(pats, doc) ==
    LET numbers == MemoryNumbers(pats) \cup PersistedNumbers(doc)
    IN  IF numbers # {} THEN StrNum(FormatInt(SetMax(numbers) + 1))
        ELSE StrNum(FormatInt(BaseNumber))

\* find_patient: the index of the first patient whose name or whose number,
\* as a string, is the typed identifier; 0 when there is none
find_patient(pats, identifier) ==
    LET hits == {i \in 1..Len(pats) :
                    \/ pats[i].name = identifier
                    \/ PyStr(pats[i].patient_number) = identifier}
    IN  IF hits = {} THEN 0 ELSE CHOOSE i \in hits : \A j \in hits : i <= j

\* the Patient object with a given identity
PatientObj(pats, det, oid) ==
    CHOOSE p \in SeqRange(pats) \cup det : p.oid = oid

StaffToDict(s) ==
    [name |-> s.name, age |-> s.age, position |-> s.position,
     phone_number |-> s.phone_number, date_of_birth |-> s.date_of_birth,
     gender |-> s.gender, email |-> s.email, address |-> s.address,
     identifier |-> s.identifier]

\* what save_data writes to db_file
save_data(pats, depts, det) ==
    [kind |-> "doc",
     patients |-> [i \in 1..Len(pats) |-> to_dict(pats[i])],
     departments |->
        [name \in DOMAIN depts |->
            [patients |-> [i \in 1..Len(depts[name].patients) |->
                              PatientObj(pats, det, depts[name].patients[i]).name],
             staff |-> [i \in 1..Len(depts[name].staff) |->
                           StaffToDict(depts[name].objs[depts[name].staff[i]])]]]]

\* load_data: the patients of the document, deduplicated by patient_number
RECURSIVE Dedup(_, _, _)
Dedup(loaded, seen, i) ==
    IF i > Len(loaded) THEN <<>>
    ELSE IF loaded[i].patient_number \notin seen
         THEN <<loaded[i]>> \o Dedup(loaded, seen \cup {loaded[i].patient_number}, i + 1)
         ELSE Dedup(loaded, seen, i + 1)

LoadPatients(doc) ==
    LET kept == Dedup(Get(doc, "patients", <<>>), {}, 1)
    IN  [i \in 1..Len(kept) |-> from_dict(kept[i], i)]

\* {p.room_number: p.name for p in self.patients if p.room_number}
LoadRooms(pats) ==
    LET occupied == {i \in 1..Len(pats) : TruthyRoom(pats[i].room_number)}
        lastOf(r) == CHOOSE i \in occupied :
                        /\ pats[i].room_number = r
                        /\ \A j \in occupied : pats[j].room_number = r => j <= i
    IN  [r \in {pats[i].room_number : i \in occupied} |-> pats[lastOf(r)].name]

RECURSIVE LoadStaff(_, _, _)
LoadStaff(dept, dicts, i) ==
    IF i > Len(dicts) THEN dept
    ELSE LET s == dicts[i]
             staff == Staff(s.name, s.age, s.position, s.phone_number,
                            s.date_of_birth, s.gender, s.email, s.address,
                            s.identifier)
         IN  LoadStaff(add_staff(dept, staff), dicts, i + 1)

LoadDepartments(doc) ==
    LET ds == Get(doc, "departments", <<>>)
    IN  [name \in DOMAIN ds |-> LoadStaff(Department, Get(ds[name], "staff", <<>>), 1)]

\* the attributes of the system after load_data on a given file content,
\* and whether load_data raised: only FileNotFoundError and JSONDecodeError
\* are caught, and the attributes are then what __init__ set
load_data(doc) ==
    IF doc.kind = "doc"
    THEN LET pats == LoadPatients(doc)
         IN  [patients |-> pats, rooms |-> LoadRooms(pats),
              departments |-> LoadDepartments(doc), raised |-> FALSE]
    ELSE [patients |-> <<>>, rooms |-> <<>>, departments |-> <<>>,
          raised |-> doc.kind \notin {"absent", "corrupt"}]

AbsentFile == [kind |-> "absent"]
\* text that is not JSON: json.load raises JSONDecodeError
CorruptFile == [kind |-> "corrupt"]
\* bytes that are not UTF-8 text: json.load raises UnicodeDecodeError
UndecodableFile == [kind |-> "undecodable"]
Document(pats, depts) == [kind |-> "doc", patients |-> pats, departments |-> depts]

----------------------------------------------------------------------------
(* core/hospital_system.py: main_menu, one action per option.  A typed     *)
(* number is [kind, val]: kind "ok" when int()/float() accepts the text,   *)
(* "bad" when it raises ValueError, "blank" for an empty line.  A          *)
(* ValueError that no handler catches ends the process.                    *)

Ok(n) == [kind |-> "ok", val |-> n]
Bad == [kind |-> "bad", val |-> 0]
Blank == [kind |-> "blank", val |-> 0]

Today == "2025-06-01"
ValidStatuses == {"normal", "surgery", "emergency", "death"}

\* last: the option, the patient it found, how it ended, the amount typed
DoneWith(op, oid, result, arg) ==
    last' = [op |-> op, oid |-> oid, result |-> result, arg |-> arg]
Done(op, oid, result) == DoneWith(op, oid, result, 0)

\* an exception leaves main_menu: nothing is saved, the process ends
Crash(op, oid) ==
    /\ running' = FALSE
    /\ Done(op, oid, "crashed")

Save == db' = save_data(patients', departments', detached')

PutRoom(rs, room, name) ==
    [r \in DOMAIN rs \cup {room} |-> IF r = room THEN name ELSE rs[r]]

FreshOid ==
    LET used == {p.oid : p \in SeqRange(patients) \cup detached}
        free == (1..(Cardinality(used) + 1)) \ used
    IN  CHOOSE k \in free : \A j \in free : k <= j

Referenced(depts, oid) ==
    \E name \in DOMAIN depts :
        \/ oid \in SeqRange(depts[name].patients)
        \/ \E k \in DOMAIN depts[name].objs :
              oid \in SeqRange(depts[name].objs[k].patients)

RemoveAt(seq, i) == SubSeq(seq, 1, i - 1) \o SubSeq(seq, i + 1, Len(seq))

\* add_patient, with the arguments option 3 has collected
add_patient(name, age, condition, phone_number, date_of_birth, gender, email, address, identifier, patient_next_of_kin, room_number, insurance) ==
    IF \E i \in 1..Len(patients) : patients[i].identifier = identifier
    THEN /\ Done("add_patient", 0, "duplicate identifier")
         /\ UNCHANGED <<patients, rooms, departments, detached, db, running, issued>>
    ELSE LET patient_number == generate_patient_number(patients, db)
         IN  /\ issued' = patient_number
             /\ IF \E i \in 1..Len(patients) :
                    PyStr(patients[i].patient_number) = PyStr(patient_number)
                THEN /\ Done("add_patient", 0, "duplicate number")
                     /\ UNCHANGED <<patients, rooms, departments, detached, db, running>>
                ELSE LET patient ==
                          Patient(FreshOid, name, age, condition, patient_number,
                                  phone_number, date_of_birth, gender, email,
                                  address, identifier, patient_next_of_kin,
                                  room_number, <<>>, <<>>, "normal", Today,
                                  NoneStr, NoneStr, insurance)
                     IN  /\ patients' = Append(patients, patient)
                         /\ rooms' = IF TruthyRoom(room_number)
                                     THEN PutRoom(rooms, room_number, name)
                                     ELSE rooms
                         /\ UNCHANGED <<departments, detached, running>>
                         /\ Save
                         /\ Done("add_patient", patient.oid, "added")

\* option 3; in: name, age, condition, phone_number, date_of_birth, gender,
\* email, address, identifier, room, has_kin, kin, has_insurance, provider,
\* policy_number, coverage
MenuAddPatient(in) ==
    /\ running
    /\ IF in.age.kind # "ok" \/ in.room.kind = "bad"
       THEN /\ Crash("add_patient", 0)
            /\ UNCHANGED <<patients, rooms, departments, detached, db, issued>>
       ELSE LET room == IF in.room.kind = "blank" THEN NoneRoom ELSE in.room.val
                patient_next_of_kin ==
                    IF in.has_kin \in {"yes", "y"} THEN in.kin ELSE NoneKin
                coverage_percent ==
                    IF in.coverage.kind = "ok" THEN in.coverage.val ELSE 0
                insurance ==
                    IF in.has_insurance \in {"yes", "y"}
                    THEN [provider |-> in.provider,
                          policy_number |-> in.policy_number,
                          coverage_percent |-> coverage_percent]
                    ELSE NoInsurance
            IN  add_patient(in.name, in.age.val, in.condition, in.phone_number,
                            in.date_of_birth, in.gender, in.email, in.address,
                            in.identifier, patient_next_of_kin, room, insurance)

\* assign_room
assign_room(i, room_number) ==
    /\ patients' = [patients EXCEPT ![i].room_number = room_number]
    /\ rooms' = PutRoom(rooms, room_number, patients[i].name)
    /\ UNCHANGED <<departments, detached, running, issued>>
    /\ Save
    /\ DoneWith("assign_room", patients[i].oid, "assigned", room_number)

\* option 4 without its status test
MenuAssignRoom_Ungated(identifier, room) ==
    /\ running
    /\ IF room.kind # "ok"
       THEN /\ Crash("assign_room", 0)
            /\ UNCHANGED <<patients, rooms, departments, detached, db, issued>>
       ELSE LET i == find_patient(patients, identifier)
            IN  IF i = 0
                THEN /\ Done("assign_room", 0, "not found")
                     /\ UNCHANGED <<patients, rooms, departments, detached, db, running, issued>>
                ELSE assign_room(i, room.val)

\* option 4
MenuAssignRoom(identifier, room) ==
    /\ running
    /\ IF room.kind # "ok"
       THEN /\ Crash("assign_room", 0)
            /\ UNCHANGED <<patients, rooms, departments, detached, db, issued>>
       ELSE LET i == find_patient(patients, identifier)
            IN  IF i = 0
                THEN /\ Done("assign_room", 0, "not found")
                     /\ UNCHANGED <<patients, rooms, departments, detached, db, running, issued>>
                ELSE IF patients[i].status = "death"
                THEN /\ DoneWith("assign_room", patients[i].oid, "deceased", room.val)
                     /\ UNCHANGED <<patients, rooms, departments, detached, db, running, issued>>
                ELSE assign_room(i, room.val)

\* the Billing object generate_bill appends
NewBill(p, amount, description) ==
    IF p.insurance.coverage_percent > 0
    THEN LET insurance_coverage == p.insurance.coverage_percent
             discounted_amount == get_discounted_amount(amount, insurance_coverage)
         IN  Billing(discounted_amount, DiscountDesc(description, insurance_coverage), FALSE)
    ELSE Billing(amount, PlainDesc(description), FALSE)

\* generate_bill
generate_bill(i, amount, description) ==
    /\ patients' = [patients EXCEPT ![i] = add_bill(@, NewBill(@, amount, description))]
    /\ UNCHANGED <<rooms, departments, detached, running, issued>>
    /\ Save
    /\ DoneWith("generate_bill", patients[i].oid, "billed", amount)

\* option 5
MenuGenerateBill(identifier, amount, description) ==
    /\ running
    /\ LET i == find_patient(patients, identifier)
       IN  IF i = 0
           THEN /\ Done("generate_bill", 0, "not found")
                /\ UNCHANGED <<patients, rooms, departments, detached, db, running, issued>>
           ELSE IF patients[i].status = "death"
           THEN /\ Done("generate_bill", patients[i].oid, "deceased")
                /\ UNCHANGED <<patients, rooms, departments, detached, db, running, issued>>
           ELSE IF amount.kind # "ok"
           THEN /\ Crash("generate_bill", patients[i].oid)
                /\ UNCHANGED <<patients, rooms, departments, detached, db, issued>>
           ELSE generate_bill(i, amount.val, description)

\* option 7, mark_bill_paid
MenuMarkBillPaid(identifier, bill_idx) ==
    /\ running
    /\ LET i == find_patient(patients, identifier)
       IN  IF i = 0
           THEN /\ Done("mark_bill_paid", 0, "not found")
                /\ UNCHANGED <<patients, rooms, departments, detached, db, running, issued>>
           ELSE IF patients[i].billing = <<>>
           THEN /\ Done("mark_bill_paid", patients[i].oid, "no bills")
                /\ UNCHANGED <<patients, rooms, departments, detached, db, running, issued>>
           ELSE IF bill_idx.kind # "ok"
           THEN /\ Done("mark_bill_paid", patients[i].oid, "invalid input")
                /\ UNCHANGED <<patients, rooms, departments, detached, db, running, issued>>
           ELSE IF 0 <= bill_idx.val /\ bill_idx.val < Len(patients[i].billing)
           THEN /\ patients' = [patients EXCEPT
                                   ![i].billing[bill_idx.val + 1] = mark_paid(@)]
                /\ UNCHANGED <<rooms, departments, detached, running, issued>>
                /\ Save
                /\ DoneWith("mark_bill_paid", patients[i].oid, "paid", bill_idx.val)
           ELSE /\ DoneWith("mark_bill_paid", patients[i].oid, "invalid index", bill_idx.val)
                /\ UNCHANGED <<patients, rooms, departments, detached, db, running, issued>>

\* the next of kin edit_patient computes from the answers
EditedKin(p, in) ==
    IF in.has_kin \in {"no", "n"} THEN NoneKin
    ELSE IF in.has_kin \in {"yes", "y"}
    THEN LET kin == IF p.patient_next_of_kin.isdict
                    THEN p.patient_next_of_kin ELSE EmptyKin
         IN  [isdict |-> TRUE,
              name |-> OrElse(in.kin_name, kin.name),
              number |-> OrElse(in.kin_number, kin.number),
              email |-> OrElse(in.kin_email, kin.email),
              relation |-> OrElse(in.kin_relation, kin.relation)]
    ELSE p.patient_next_of_kin

\* the insurance edit_patient computes from the answers
EditedInsurance(p, in) ==
    IF in.has_insurance \in {"no", "n"} THEN NoInsurance
    ELSE IF in.has_insurance \in {"yes", "y"}
    THEN LET ins == p.insurance
         IN  [provider |-> OrElse(in.provider, ins.provider),
              policy_number |-> OrElse(in.policy_number, ins.policy_number),
              coverage_percent |->
                 IF in.coverage.kind = "ok" THEN in.coverage.val
                 ELSE ins.coverage_percent]
    ELSE p.insurance

\* edit_patient; in holds the answers to its prompts, "" or <<>> for blank
edit_patient(i, in) ==
    LET p == patients[i]
        new_name == OrElseText(in.name, p.name)
        new_status == OrElse(in.status, p.status)
        new_date_of_death ==
            IF new_status = "death" THEN OrElse(in.date_of_death, p.date_of_death)
            ELSE NoneStr
    IN  IF in.age.kind = "bad"
        THEN \* patient.name is assigned, then int(new_age) raises
             /\ patients' = [patients EXCEPT ![i].name = new_name]
             /\ UNCHANGED <<rooms, departments, detached, db, issued>>
             /\ Crash("edit_patient", p.oid)
        ELSE /\ patients' = [patients EXCEPT ![i] =
                   [p EXCEPT
                      !.name = new_name,
                      !.age = IF in.age.kind = "ok" THEN in.age.val ELSE p.age,
                      !.phone_number = OrElse(in.phone_number, p.phone_number),
                      !.date_of_birth = OrElse(in.date_of_birth, p.date_of_birth),
                      !.gender = OrElse(in.gender, p.gender),
                      !.email = OrElse(in.email, p.email),
                      !.address = OrElse(in.address, p.address),
                      !.identifier = OrElse(in.identifier, p.identifier),
                      !.condition = OrElse(in.condition, p.condition),
                      !.status = new_status,
                      !.patient_next_of_kin = EditedKin(p, in),
                      !.date_of_death = new_date_of_death,
                      !.register_date = OrElse(in.register_date, p.register_date),
                      !.discharge_date = OrElse(in.discharge_date, p.discharge_date),
                      !.insurance = EditedInsurance(p, in)]]
             /\ UNCHANGED <<rooms, departments, detached, running, issued>>
             /\ Save
             /\ Done("edit_patient", p.oid, "updated")

\* option 11
MenuEditPatient(identifier, in) ==
    /\ running
    /\ LET i == find_patient(patients, identifier)
       IN  IF i = 0
           THEN /\ Done("edit_patient", 0, "not found")
                /\ UNCHANGED <<patients, rooms, departments, detached, db, running, issued>>
           ELSE edit_patient(i, in)

\* remove_patient; the object stays alive while a department or a doctor
\* still lists it
remove_patient(i) ==
    /\ patients' = RemoveAt(patients, i)
    /\ detached' = IF Referenced(departments, patients[i].oid)
                   THEN detached \cup {patients[i]} ELSE detached
    /\ UNCHANGED <<rooms, departments, running, issued>>
    /\ Save
    /\ Done("remove_patient", patients[i].oid, "removed")

\* option 12 without its status test
MenuRemovePatient_Ungated(identifier) ==
    /\ running
    /\ LET i == find_patient(patients, identifier)
       IN  IF i = 0
           THEN /\ Done("remove_patient", 0, "not found")
                /\ UNCHANGED <<patients, rooms, departments, detached, db, running, issued>>
           ELSE remove_patient(i)

\* option 12
MenuRemovePatient(identifier) ==
    /\ running
    /\ LET i == find_patient(patients, identifier)
       IN  IF i = 0
           THEN /\ Done("remove_patient", 0, "not found")
                /\ UNCHANGED <<patients, rooms, departments, detached, db, running, issued>>
           ELSE IF patients[i].status = "normal"
           THEN remove_patient(i)
           ELSE IF patients[i].status = "death"
           THEN /\ Done("remove_patient", patients[i].oid, "deceased")
                /\ UNCHANGED <<patients, rooms, departments, detached, db, running, issued>>
           ELSE /\ Done("remove_patient", patients[i].oid, "not normal")
                /\ UNCHANGED <<patients, rooms, departments, detached, db, running, issued>>

\* update_patient_status that leaves date_of_death as it is unless the
\* new status is death
update_patient_status_Kept(name, new_status, date_of_death) ==
    LET hits == {j \in 1..Len(patients) : patients[j].name = name}
    IN  IF hits = {}
        THEN /\ Done("update_patient_status", 0, "not found")
             /\ UNCHANGED <<patients, rooms, departments, detached, db, running, issued>>
        ELSE LET j == CHOOSE k \in hits : \A l \in hits : k <= l
             IN  IF new_status \in ValidStatuses
                 THEN /\ patients' = [patients EXCEPT
                            ![j].status = new_status,
                            ![j].date_of_death =
                                IF new_status = "death" THEN date_of_death
                                ELSE @]
                      /\ UNCHANGED <<rooms, departments, detached, running, issued>>
                      /\ Save
                      /\ Done("update_patient_status", patients[j].oid, "updated")
                 ELSE /\ Done("update_patient_status", patients[j].oid, "invalid status")
                      /\ UNCHANGED <<patients, rooms, departments, detached, db, running, issued>>

\* update_patient_status(name): the patient is looked up again, by name
update_patient_status(name, new_status, date_of_death) ==
    LET hits == {j \in 1..Len(patients) : patients[j].name = name}
    IN  IF hits = {}
        THEN /\ Done("update_patient_status", 0, "not found")
             /\ UNCHANGED <<patients, rooms, departments, detached, db, running, issued>>
        ELSE LET j == CHOOSE k \in hits : \A l \in hits : k <= l
             IN  IF new_status \in ValidStatuses
                 THEN /\ patients' = [patients EXCEPT
                            ![j].status = new_status,
                            ![j].date_of_death =
                                IF new_status = "death" THEN date_of_death
                                ELSE NoneStr]
                      /\ UNCHANGED <<rooms, departments, detached, running, issued>>
                      /\ Save
                      /\ Done("update_patient_status", patients[j].oid, "updated")
                 ELSE /\ Done("update_patient_status", patients[j].oid, "invalid status")
                      /\ UNCHANGED <<patients, rooms, departments, detached, db, running, issued>>

\* option 15
MenuUpdateStatus(identifier, new_status, date_of_death) ==
    /\ running
    /\ LET i == find_patient(patients, identifier)
       IN  IF i = 0
           THEN /\ Done("update_patient_status", 0, "not found")
                /\ UNCHANGED <<patients, rooms, departments, detached, db, running, issued>>
           ELSE update_patient_status(patients[i].name, new_status, date_of_death)

\* option 16, add_procedure_to_patient
MenuAddProcedure(identifier, date, description) ==
    /\ running
    /\ LET i == find_patient(patients, identifier)
       IN  IF i = 0
           THEN /\ Done("add_procedure", 0, "not found")
                /\ UNCHANGED <<patients, rooms, departments, detached, db, running, issued>>
           ELSE /\ patients' = [patients EXCEPT ![i] = add_procedure(@, date, description)]
                /\ UNCHANGED <<rooms, departments, detached, running, issued>>
                /\ Save
                /\ Done("add_procedure", patients[i].oid, "added")

\* the loop of generate_bills_from_procedures over the procedures that were
\* unbilled when it started; amounts[k] is what is typed for procedure k
RECURSIVE BillProcedures(_, _, _)
\* the loop left at the first invalid amount instead of going on
BillProcedures_Aborting(p, amounts, k) ==
    IF k > Len(p.procedures) THEN p
    ELSE IF p.procedures[k].billed THEN BillProcedures(p, amounts, k + 1)
    ELSE IF amounts[k].kind # "ok" THEN p
         ELSE LET proc == p.procedures[k]
                  bill == Billing(amounts[k].val,
                                  ProcedureDesc(proc.description, proc.date), FALSE)
              IN  BillProcedures(mark_procedure_billed(add_bill(p, bill), k - 1),
                                 amounts, k + 1)

BillProcedures(p, amounts, k) ==
    IF k > Len(p.procedures) THEN p
    ELSE IF p.procedures[k].billed \/ amounts[k].kind # "ok"
         THEN BillProcedures(p, amounts, k + 1)
         ELSE LET proc == p.procedures[k]
                  bill == Billing(amounts[k].val,
                                  ProcedureDesc(proc.description, proc.date), FALSE)
              IN  BillProcedures(mark_procedure_billed(add_bill(p, bill), k - 1),
                                 amounts, k + 1)

\* generate_bills_from_procedures without its final save_data
generate_bills_from_procedures_Unsaved(i, amounts) ==
    LET unbilled == {k \in 1..Len(patients[i].procedures) :
                        ~patients[i].procedures[k].billed}
    IN  IF unbilled = {}
        THEN /\ Done("generate_bills_from_procedures", patients[i].oid, "no unbilled")
             /\ UNCHANGED <<patients, rooms, departments, detached, db, running, issued>>
        ELSE /\ patients' = [patients EXCEPT ![i] = BillProcedures(@, amounts, 1)]
             /\ UNCHANGED <<rooms, departments, detached, db, running, issued>>
             /\ Done("generate_bills_from_procedures", patients[i].oid, "billed")

\* generate_bills_from_procedures
generate_bills_from_procedures(i, amounts) ==
    LET unbilled == {k \in 1..Len(patients[i].procedures) :
                        ~patients[i].procedures[k].billed}
    IN  IF unbilled = {}
        THEN /\ Done("generate_bills_from_procedures", patients[i].oid, "no unbilled")
             /\ UNCHANGED <<patients, rooms, departments, detached, db, running, issued>>
        ELSE /\ patients' = [patients EXCEPT ![i] = BillProcedures(@, amounts, 1)]
             /\ UNCHANGED <<rooms, departments, detached, running, issued>>
             /\ Save
             /\ Done("generate_bills_from_procedures", patients[i].oid, "billed")

\* option 18
MenuGenerateBillsFromProcedures(identifier, amounts) ==
    /\ running
    /\ LET i == find_patient(patients, identifier)
       IN  IF i = 0
           THEN /\ Done("generate_bills_from_procedures", 0, "not found")
                /\ UNCHANGED <<patients, rooms, departments, detached, db, running, issued>>
           ELSE generate_bills_from_procedures(i, amounts)

\* option 19
MenuSave ==
    /\ running
    /\ UNCHANGED <<patients, rooms, departments, detached, running, issued>>
    /\ Save
    /\ Done("save", 0, "saved")

\* option 20
MenuExit(save) ==
    /\ running
    /\ UNCHANGED <<patients, rooms, departments, detached, issued>>
    /\ IF save \in {"y", "yes"} THEN Save ELSE UNCHANGED db
    /\ running' = FALSE
    /\ Done("exit", 0, "exited")

\* main(): a new process builds HospitalSystem, whose __init__ calls load_data
Start ==
    /\ ~running
    /\ patients' = load_data(db).patients
    /\ rooms' = load_data(db).rooms
    /\ departments' = load_data(db).departments
    /\ detached' = {}
    /\ UNCHANGED <<db, issued>>
    /\ running' = ~load_data(db).raised
    /\ Done("load_data", 0, IF load_data(db).raised THEN "raised" ELSE "loaded")

----------------------------------------------------------------------------
(* departments *)

\* str.lower() on the positions that are typed
Lower(s) ==
    CASE s \in {"Doctor", "DOCTOR", "doctor"} -> "doctor"
      [] s \in {"Nurse", "NURSE", "nurse"} -> "nurse"
      [] s = "Clerk" -> "clerk"
      [] OTHER -> s

PutDept(depts, name, dept) ==
    [n \in DOMAIN depts \cup {name} |-> IF n = name THEN dept ELSE depts[n]]

\* option 8, add_department
MenuAddDepartment(name) ==
    /\ running
    /\ IF name \notin DOMAIN departments
       THEN /\ departments' = PutDept(departments, name, Department)
            /\ UNCHANGED <<patients, rooms, detached, running, issued>>
            /\ Save
            /\ Done("add_department", 0, "added")
       ELSE /\ Done("add_department", 0, "exists")
            /\ UNCHANGED <<patients, rooms, departments, detached, db, running, issued>>

\* add_staff_to_department: a missing department is created first
add_staff_to_department(dept_name, in) ==
    LET depts == IF dept_name \notin DOMAIN departments
                 THEN PutDept(departments, dept_name, Department)
                 ELSE departments
        dept == depts[dept_name]
        specialty == IF in.specialty = "" THEN "General" ELSE in.specialty
        changed ==
            IF Lower(in.position) = "doctor"
            THEN add_doctor(dept, Doctor(in.name, in.age.val, in.phone_number,
                                         in.date_of_birth, in.gender, in.email,
                                         in.address, in.identifier, specialty))
            ELSE IF Lower(in.position) = "nurse"
            THEN add_nurse(dept, Nurse(in.name, in.age.val, in.phone_number,
                                       in.date_of_birth, in.gender, in.email,
                                       in.address, in.identifier, dept_name))
            ELSE add_staff(dept, Staff(in.name, in.age.val, in.phone_number,
                                       in.date_of_birth, in.gender, in.email,
                                       in.address, in.identifier, in.position))
    IN  /\ departments' = PutDept(depts, dept_name, changed)
        /\ UNCHANGED <<patients, rooms, detached, running, issued>>
        /\ Save
        /\ Done("add_staff", 0, "added")

\* option 9; in: name, age, position, phone_number, date_of_birth, gender,
\* email, address, identifier, specialty
MenuAddStaff(dept_name, in) ==
    /\ running
    /\ IF in.age.kind # "ok"
       THEN /\ Crash("add_staff", 0)
            /\ UNCHANGED <<patients, rooms, departments, detached, db, issued>>
       ELSE add_staff_to_department(dept_name, in)

\* the first object of a list of a department that has the given name
FirstNamed(dept, list, name) ==
    LET hits == {i \in 1..Len(list) : dept.objs[list[i]].name = name}
    IN  IF hits = {} THEN 0 ELSE list[CHOOSE i \in hits : \A j \in hits : i <= j]

\* assign_patient_to_doctor_in_department
assign_patient_to_doctor_in_department(dept_name, doctor_name, i) ==
    IF dept_name \in DOMAIN departments
    THEN LET dept == departments[dept_name]
             doctor == FirstNamed(dept, dept.doctors, doctor_name)
         IN  IF doctor # 0
             THEN /\ departments' = [departments EXCEPT ![dept_name] =
                                        assign_patient_to_doctor(dept, patients[i].oid, doctor)]
                  /\ UNCHANGED <<patients, rooms, detached, running, issued>>
                  /\ Save
                  /\ Done("assign_doctor", patients[i].oid, "assigned")
             ELSE /\ Done("assign_doctor", patients[i].oid, "no doctor")
                  /\ UNCHANGED <<patients, rooms, departments, detached, db, running, issued>>
    ELSE /\ Done("assign_doctor", patients[i].oid, "no department")
         /\ UNCHANGED <<patients, rooms, departments, detached, db, running, issued>>

\* option 21
MenuAssignDoctor(dept_name, doctor_name, identifier) ==
    /\ running
    /\ LET i == find_patient(patients, identifier)
       IN  IF i = 0
           THEN /\ Done("assign_doctor", 0, "not found")
                /\ UNCHANGED <<patients, rooms, departments, detached, db, running, issued>>
           ELSE assign_patient_to_doctor_in_department(dept_name, doctor_name, i)

\* option 13, edit_staff_in_department
MenuEditStaff(dept_name, staff_name, in) ==
    /\ running
    /\ IF dept_name \notin DOMAIN departments
       THEN /\ Done("edit_staff", 0, "no department")
            /\ UNCHANGED <<patients, rooms, departments, detached, db, running, issued>>
       ELSE LET dept == departments[dept_name]
                sid == FirstNamed(dept, dept.staff, staff_name)
            IN  IF sid = 0
                THEN /\ Done("edit_staff", 0, "not found")
                     /\ UNCHANGED <<patients, rooms, departments, detached, db, running, issued>>
                ELSE LET s == dept.objs[sid]
                         new_name == OrElse(in.name, s.name)
                     IN  IF in.age.kind = "bad"
                         THEN \* staff.name is assigned, then int(new_age) raises
                              /\ departments' = [departments EXCEPT
                                    ![dept_name].objs[sid].name = new_name]
                              /\ UNCHANGED <<patients, rooms, detached, db, issued>>
                              /\ Crash("edit_staff", 0)
                         ELSE /\ departments' = [departments EXCEPT
                                    ![dept_name].objs[sid] =
                                       [s EXCEPT
                                          !.name = new_name,
                                          !.age = IF in.age.kind = "ok"
                                                  THEN in.age.val ELSE s.age,
                                          !.position = OrElse(in.position, s.position),
                                          !.phone_number = OrElse(in.phone_number, s.phone_number),
                                          !.date_of_birth = OrElse(in.date_of_birth, s.date_of_birth),
                                          !.gender = OrElse(in.gender, s.gender),
                                          !.email = OrElse(in.email, s.email),
                                          !.address = OrElse(in.address, s.address),
                                          !.identifier = OrElse(in.identifier, s.identifier)]]
                              /\ UNCHANGED <<patients, rooms, detached, running, issued>>
                              /\ Save
                              /\ Done("edit_staff", 0, "updated")

\* option 14, remove_staff_from_department: only the staff list loses it
MenuRemoveStaff(dept_name, staff_name) ==
    /\ running
    /\ IF dept_name \notin DOMAIN departments
       THEN /\ Done("remove_staff", 0, "no department")
            /\ UNCHANGED <<patients, rooms, departments, detached, db, running, issued>>
       ELSE LET dept == departments[dept_name]
                sid == FirstNamed(dept, dept.staff, staff_name)
                at == CHOOSE i \in 1..Len(dept.staff) :
                         /\ dept.staff[i] = sid
                         /\ \A j \in 1..Len(dept.staff) : dept.staff[j] = sid => i <= j
            IN  IF sid # 0
                THEN /\ departments' = [departments EXCEPT ![dept_name] =
                           Collect([dept EXCEPT !.staff = RemoveAt(dept.staff, at)])]
                     /\ UNCHANGED <<patients, rooms, detached, running, issued>>
                     /\ Save
                     /\ Done("remove_staff", 0, "removed")
                ELSE /\ Done("remove_staff", 0, "not found")
                     /\ UNCHANGED <<patients, rooms, departments, detached, db, running, issued>>

----------------------------------------------------------------------------
(* values the operator types and documents the file may hold *)

Alice == <<"Alice">>
Bob == <<"Bob">>
Robert == <<"Robert">>
Kin1 == [isdict |-> TRUE, name |-> "Carol", number |-> "0100", email |-> "c@x",
         relation |-> "sister"]

\* the answers of option 3, apart from name, identifier, room and coverage
AddForm(name, identifier, room, has_kin, has_insurance, coverage) ==
    [name |-> name, age |-> Ok(30), condition |-> "Flu", phone_number |-> "555",
     date_of_birth |-> "1995-01-01", gender |-> "F", email |-> "p@x",
     address |-> "Cairo", identifier |-> identifier, room |-> room,
     has_kin |-> has_kin, kin |-> Kin1, has_insurance |-> has_insurance,
     provider |-> "Axa", policy_number |-> "P1", coverage |-> coverage]

\* the answers of edit_patient when every line is left blank
BlankEdit ==
    [name |-> <<>>, age |-> Blank, phone_number |-> "", date_of_birth |-> "",
     gender |-> "", email |-> "", address |-> "", identifier |-> "",
     condition |-> "", status |-> "", has_kin |-> "", kin_name |-> "",
     kin_number |-> "", kin_email |-> "", kin_relation |-> "",
     date_of_death |-> "", register_date |-> "", discharge_date |-> "",
     has_insurance |-> "", provider |-> "", policy_number |-> "",
     coverage |-> Blank]

\* a patient entry of a document, as save_data writes it
PatientEntry(name, patient_number, identifier) ==
    to_dict(Patient(0, name, 30, "Flu", patient_number, "555", "1995-01-01",
                    "F", "p@x", "Cairo", identifier, Kin1, NoneRoom, <<>>, <<>>,
                    "normal", Today, NoneStr, NoneStr, NoInsurance))

----------------------------------------------------------------------------
(* generate_patient_number as a function of the in-memory patients and of  *)
(* the file, on its own                                                    *)

MaxMemory == 2
MaxPersisted == 2

\* patient numbers a list or a document may hold: absent, not numeric,
\* decimal strings (one with a leading zero) and JSON integers
SomeNumbers ==
    {NoneNum, StrNum(<<"abc">>), StrNum(<<"1", "0", "0", "1">>),
     StrNum(<<"1", "0", "0", "2">>), StrNum(<<"0", "1", "0", "0", "4">>),
     IntNum(1001), IntNum(1003), StrNum(<<"7">>)}

SeqsUpTo(S, n) == UNION {[1..k -> S] : k \in 0..n}

AllocInit ==
    /\ \E nums \in SeqsUpTo(SomeNumbers, MaxMemory) :
          patients = [i \in 1..Len(nums) |->
                         from_dict(PatientEntry(Alice, nums[i], "ID1"), i)]
    /\ \E nums \in SeqsUpTo(SomeNumbers, MaxPersisted) :
          db \in {AbsentFile, CorruptFile,
                  Document([i \in 1..Len(nums) |->
                               PatientEntry(Alice, nums[i], "ID1")], <<>>)}
    /\ rooms = <<>>
    /\ departments = <<>>
    /\ detached = {}
    /\ running = TRUE
    /\ issued = NoneNum
    /\ last = [op |-> "init", oid |-> 0, result |-> "", arg |-> 0]

\* a call of generate_patient_number
GenerateNumber ==
    /\ running
    /\ last.op = "init"
    /\ issued' = generate_patient_number(patients, db)
    /\ UNCHANGED <<patients, rooms, departments, detached, db, running>>
    /\ Done("generate_patient_number", 0, "returned")

AllocNext == GenerateNumber

SpecAlloc == AllocInit /\ [][AllocNext]_vars

\* the numeric patient numbers of the in-memory patients and of the document
NumericUnion ==
    {ParseInt(PyStr(patients[i].patient_number)) :
        i \in {j \in 1..Len(patients) : isdigit(PyStr(patients[j].patient_number))}}
    \cup
    (IF db.kind = "doc"
     THEN {ParseInt(PyStr(db.patients[i].patient_number)) :
             i \in {j \in 1..Len(db.patients) :
                       isdigit(PyStr(db.patients[j].patient_number))}}
     ELSE {})

----------------------------------------------------------------------------
(* the patient registry and the status lifecycle: a process is started on  *)
(* a file, patients are added, edited, given a status and removed, the     *)
(* process ends and another is started on what was saved                   *)

MaxPatients == 2
\* the largest patient number that is issued
MaxNumber == 1003

N1001 == <<"1", "0", "0", "1">>
N1002 == <<"1", "0", "0", "2">>

\* what the file may hold when the first process starts: nothing, garbage,
\* or up to two patient entries, with numbers as strings or JSON integers
FirstEntries ==
    {PatientEntry(Alice, StrNum(N1001), "ID1"),
     PatientEntry(Bob, IntNum(1001), "ID2"),
     PatientEntry(Bob, StrNum(N1002), "ID2")}

FirstFiles ==
    {AbsentFile, CorruptFile, UndecodableFile} \cup
    {Document(ps, <<>>) : ps \in SeqsUpTo(FirstEntries, 2)}

\* the state after HospitalSystem.__init__ on a given file
InitOn(files) ==
    /\ db \in files
    /\ patients = load_data(db).patients
    /\ rooms = load_data(db).rooms
    /\ departments = load_data(db).departments
    /\ detached = {}
    /\ running = ~load_data(db).raised
    /\ issued = NoneNum
    /\ last = [op |-> "load_data", oid |-> 0,
               result |-> IF load_data(db).raised THEN "raised" ELSE "loaded",
               arg |-> 0]

Init == InitOn(FirstFiles)

TypedIdentifiers == {Alice, Bob, N1001, N1002}

AddForms ==
    {AddForm(Alice, "ID1", Blank, "yes", "no", Blank),
     AddForm(Bob, "ID2", Blank, "no", "no", Blank)}

DeathDate == "2025-05-01"

EditForms ==
    {[BlankEdit EXCEPT !.name = Bob],
     [BlankEdit EXCEPT !.identifier = "ID1"],
     [BlankEdit EXCEPT !.has_kin = "no"],
     [BlankEdit EXCEPT !.status = "death", !.date_of_death = DeathDate],
     [BlankEdit EXCEPT !.status = "normal"],
     [BlankEdit EXCEPT !.age = Bad, !.name = Alice]}

\* an add is tried while the registry and the numbers are within the bounds
WithinBounds ==
    /\ Len(patients) < MaxPatients
    /\ ParseInt(generate_patient_number(patients, db).v) <= MaxNumber

AddPatientStep == \E in \in AddForms : WithinBounds /\ MenuAddPatient(in)
EditPatientStep ==
    \E id \in TypedIdentifiers, in \in EditForms : MenuEditPatient(id, in)
RemovePatientStep ==
    \E id \in TypedIdentifiers : MenuRemovePatient(id)
ExitStep == \E save \in {"y", "n"} : MenuExit(save)

Next ==
    \/ AddPatientStep
    \/ EditPatientStep
    \/ RemovePatientStep
    \/ MenuSave
    \/ ExitStep
    \/ Start

Spec == Init /\ [][Next]_vars

----------------------------------------------------------------------------
(* the status lifecycle: patients are added to an empty system, given      *)
(* statuses through option 15 and through edit_patient, and removed        *)

LifeInit == InitOn({AbsentFile, Document(<<>>, <<>>)})

TypedStatuses == {"normal", "surgery", "emergency", "death", "coma"}

StatusForms ==
    {[BlankEdit EXCEPT !.status = "death", !.date_of_death = DeathDate],
     [BlankEdit EXCEPT !.status = "death"],
     [BlankEdit EXCEPT !.status = "surgery"],
     [BlankEdit EXCEPT !.status = "normal"],
     [BlankEdit EXCEPT !.status = "coma"],
     BlankEdit}

\* the answers to "Enter date of death", one of them an empty line
TypedDates == {DeathDate, ""}

LifeIdentifiers == {Alice, Bob, N1002}

EditStatusStep ==
    \E id \in LifeIdentifiers, in \in StatusForms : MenuEditPatient(id, in)
UpdateStatusStep ==
    \E id \in LifeIdentifiers, st \in TypedStatuses, date \in TypedDates :
        MenuUpdateStatus(id, st, date)
RemoveStep == \E id \in LifeIdentifiers : MenuRemovePatient(id)

LifeNext ==
    \/ AddPatientStep
    \/ EditStatusStep
    \/ UpdateStatusStep
    \/ RemoveStep
    \/ ExitStep
    \/ Start

SpecLife == LifeInit /\ [][LifeNext]_vars

----------------------------------------------------------------------------
(* billing: one patient, insured or not, is billed directly and through    *)
(* procedures, may die, and the process may be restarted                   *)

MaxBills == 2
MaxProcs == 2

BillingForms ==
    {AddForm(Alice, "ID1", Blank, "yes", "yes", Ok(20)),
     AddForm(Alice, "ID1", Blank, "yes", "yes", Ok(0)),
     AddForm(Alice, "ID1", Blank, "yes", "no", Blank)}

TypedAmounts == {Ok(1000 * Scale), Ok(250 * Scale), Bad}
ProcedureAmounts == {Ok(500 * Scale), Bad}
BillTexts == {"X"}

AddInsuredStep == \E in \in BillingForms : WithinBounds /\ MenuAddPatient(in)
StatusStep == \E st \in {"death", "normal"} : MenuUpdateStatus(Alice, st, DeathDate)
GenerateBillStep ==
    \E amount \in TypedAmounts, text \in BillTexts :
        /\ \A i \in 1..Len(patients) : Len(patients[i].billing) < MaxBills
        /\ MenuGenerateBill(Alice, amount, text)
AddProcedureStep ==
    /\ \A i \in 1..Len(patients) : Len(patients[i].procedures) < MaxProcs
    /\ MenuAddProcedure(N1001, "2025-04-01", "Scan")
ProcedureBillsStep ==
    \E amounts \in [1..MaxProcs -> ProcedureAmounts] :
        MenuGenerateBillsFromProcedures(Alice, amounts)
MarkPaidStep ==
    \E idx \in {Ok(0), Ok(1), Ok(7), Ok(-1), Bad} : MenuMarkBillPaid(Alice, idx)

BillingNext ==
    \/ AddInsuredStep
    \/ StatusStep
    \/ GenerateBillStep
    \/ AddProcedureStep
    \/ ProcedureBillsStep
    \/ MarkPaidStep
    \/ ExitStep
    \/ Start

SpecBilling == LifeInit /\ [][BillingNext]_vars

----------------------------------------------------------------------------
(* rooms: patients are added to an empty system with or without a room,    *)
(* given rooms through option 4, may die or be removed, and the process    *)
(* may be restarted                                                        *)

RoomForms ==
    AddForms \cup {AddForm(Bob, "ID2", Ok(205), "no", "no", Blank)}

TypedRooms == {Ok(204), Ok(205), Bad}

AddRoomedStep == \E in \in RoomForms : WithinBounds /\ MenuAddPatient(in)
AssignRoomStep ==
    \E id \in {Alice, Bob, N1002}, room \in TypedRooms : MenuAssignRoom(id, room)

RenameStep == MenuEditPatient(Bob, [BlankEdit EXCEPT !.name = Robert])

RoomsNext ==
    \/ AddRoomedStep
    \/ AssignRoomStep
    \/ RenameStep
    \/ StatusStep
    \/ RemoveStep
    \/ ExitStep
    \/ Start

SpecRooms == LifeInit /\ [][RoomsNext]_vars

----------------------------------------------------------------------------
(* departments: departments and their staff are entered, edited and        *)
(* removed, a patient is assigned to a doctor, and the process is          *)
(* restarted on what was saved                                             *)

MaxStaff == 1
MaxAssigned == 2

Cardio == "Cardio"

\* the answers of option 9, apart from name, position and identifier
StaffForm(name, position, identifier) ==
    [name |-> name, age |-> Ok(45), position |-> position,
     phone_number |-> "0111", date_of_birth |-> "1980-02-02", gender |-> "M",
     email |-> "s@x", address |-> "Giza", identifier |-> identifier,
     specialty |-> ""]

StaffForms ==
    {StaffForm("Who", "Doctor", "S1"),
     StaffForm("Joy", "nurse", "S2"),
     StaffForm("Sam", "Clerk", "S3")}

\* the answers of edit_staff_in_department when every line is left blank
BlankStaffEdit ==
    [name |-> "", age |-> Blank, position |-> "", phone_number |-> "",
     date_of_birth |-> "", gender |-> "", email |-> "", address |-> "",
     identifier |-> ""]

StaffEdits ==
    {[BlankStaffEdit EXCEPT !.age = Ok(46)],
     [BlankStaffEdit EXCEPT !.name = "Who", !.age = Bad]}

DeptForms == {AddForm(Alice, "ID1", Blank, "yes", "no", Blank)}

AddDeptPatientStep == \E in \in DeptForms : WithinBounds /\ MenuAddPatient(in)
AddDepartmentStep == MenuAddDepartment(Cardio)
AddStaffStep ==
    \E in \in StaffForms :
        /\ \A name \in DOMAIN departments :
              Cardinality(DOMAIN departments[name].objs) < MaxStaff
        /\ MenuAddStaff(Cardio, in)
TypedDepartments == {Cardio, "ER"}
TypedDoctors == {"Who", "Joy"}

AssignDoctorStep ==
    /\ \A name \in DOMAIN departments : Len(departments[name].patients) < MaxAssigned
    /\ \E dept_name \in TypedDepartments, doctor_name \in TypedDoctors :
          MenuAssignDoctor(dept_name, doctor_name, Alice)
EditStaffStep ==
    \E name \in {"Who", "Sam"}, in \in StaffEdits : MenuEditStaff(Cardio, name, in)
RemoveStaffStep == \E name \in {"Who", "Sam"} : MenuRemoveStaff(Cardio, name)

DeptNext ==
    \/ AddDeptPatientStep
    \/ AddDepartmentStep
    \/ AddStaffStep
    \/ AssignDoctorStep
    \/ EditStaffStep
    \/ RemoveStaffStep
    \/ ExitStep
    \/ Start

SpecDept == LifeInit /\ [][DeptNext]_vars

----------------------------------------------------------------------------
(* every mutating option of the menu, in one process, on one patient and  *)
(* one department with one doctor                                          *)

MaxItems == 1

OneForms == {AddForm(Alice, "ID1", Blank, "yes", "yes", Ok(20))}

OneEdits == {BlankEdit}

AddOneStep == \E in \in OneForms : WithinBounds /\ MenuAddPatient(in)
RoomOneStep == MenuAssignRoom(Alice, Ok(204))
BillOneStep ==
    /\ \A i \in 1..Len(patients) : Len(patients[i].billing) < MaxItems
    /\ MenuGenerateBill(Alice, Ok(1000 * Scale), "X")
PaidOneStep == \E idx \in {Ok(0), Ok(7)} : MenuMarkBillPaid(Alice, idx)
EditOneStep == \E in \in OneEdits : MenuEditPatient(Alice, in)
\* the patient is removed before it has bills or procedures
RemoveOneStep ==
    /\ \A i \in 1..Len(patients) :
          patients[i].billing = <<>> /\ patients[i].procedures = <<>>
    /\ MenuRemovePatient(Alice)
StatusOneStep == \E st \in {"death", "coma"} : MenuUpdateStatus(Alice, st, DeathDate)
ProcedureOneStep ==
    /\ \A i \in 1..Len(patients) : Len(patients[i].procedures) < MaxItems
    /\ MenuAddProcedure(Alice, "2025-04-01", "Scan")
ProcedureBillOneStep ==
    /\ \A i \in 1..Len(patients) : Len(patients[i].billing) < MaxItems
    /\ \E amounts \in [1..MaxItems -> {Ok(500 * Scale)}] :
          MenuGenerateBillsFromProcedures(Alice, amounts)
StaffOneStep ==
    /\ \A name \in DOMAIN departments :
          Cardinality(DOMAIN departments[name].objs) < MaxItems
    /\ MenuAddStaff(Cardio, StaffForm("Who", "Doctor", "S1"))
DoctorOneStep ==
    /\ \A name \in DOMAIN departments : Len(departments[name].patients) < MaxItems
    /\ MenuAssignDoctor(Cardio, "Who", Alice)
EditStaffOneStep == MenuEditStaff(Cardio, "Who", [BlankStaffEdit EXCEPT !.age = Ok(46)])
RemoveStaffOneStep == MenuRemoveStaff(Cardio, "Who")

AllNext ==
    \/ AddOneStep
    \/ RoomOneStep
    \/ BillOneStep
    \/ PaidOneStep
    \/ AddDepartmentStep
    \/ StaffOneStep
    \/ DoctorOneStep
    \/ EditOneStep
    \/ RemoveOneStep
    \/ EditStaffOneStep
    \/ RemoveStaffOneStep
    \/ StatusOneStep
    \/ ProcedureOneStep
    \/ ProcedureBillOneStep
    \/ MenuSave

SpecAll == LifeInit /\ [][AllNext]_vars

----------------------------------------------------------------------------
(* properties *)

Indexes == 1..Len(patients)

\* the patient of the current state with a given identity
ByOid(oid) == CHOOSE p \in SeqRange(patients) : p.oid = oid

WithoutOid(pats) == [i \in 1..Len(pats) |-> [pats[i] EXCEPT !.oid = 0]]

DistinctNumbers(pats) ==
    \A i, j \in 1..Len(pats) :
        i # j => PyStr(pats[i].patient_number) # PyStr(pats[j].patient_number)

\* C1: no two patients of the in-memory registry have the same
\* patient_number, the numbers being compared as strings.
C1_UniqueNumbers == DistinctNumbers(patients)

\* C5: a removal that finds a patient removes it only when its status is
\* normal; then the patient is in neither the registry nor the document;
\* with any other status the registry and the document are unchanged.
C5_RemoveOnlyNormal ==
    [][(last'.op = "remove_patient" /\ last'.oid # 0) =>
          LET p == ByOid(last'.oid)
          IN  IF p.status = "normal"
              THEN /\ \A i \in 1..Len(patients') : patients'[i].oid # p.oid
                   /\ Len(patients') = Len(patients) - 1
                   /\ db'.kind = "doc"
                   /\ \A i \in 1..Len(db'.patients) :
                         db'.patients[i].patient_number # p.patient_number
              ELSE /\ patients' = patients
                   /\ db' = db]_vars

\* a patient was removed while a deceased patient stayed in the registry
C5_Witness ==
    /\ last.op = "remove_patient"
    /\ last.result = "removed"
    /\ \E i \in Indexes : patients[i].status = "death"
    /\ db = save_data(patients, departments, detached)

\* a removal was refused because the patient is in surgery
C5_WitnessRefused ==
    /\ last.op = "remove_patient"
    /\ last.result = "not normal"
    /\ \E i \in Indexes : patients[i].oid = last.oid /\ patients[i].status = "surgery"

\* C8: when the file holds what save_data wrote for patients with distinct
\* numbers, load_data gives the same patients in the same order with every
\* field equal.
C8_PatientRoundTrip ==
    [][(/\ last'.op = "load_data"
        /\ DistinctNumbers(patients)
        /\ db = save_data(patients, departments, detached))
       => WithoutOid(patients') = WithoutOid(patients)]_vars

\* C10: once a patient's status is death it is still death after an
\* update_patient_status or an edit_patient.
C10_DeathIsTerminal ==
    [][last'.op \in {"update_patient_status", "edit_patient"} =>
          \A i \in Indexes :
              patients[i].status = "death" => patients'[i].status = "death"]_vars

\* the patient of the next state with a given identity
ByOidNext(oid) == CHOOSE p \in SeqRange(patients') : p.oid = oid

\* C4: while a patient's status is death, neither generate_bill nor
\* generate_bills_from_procedures appends a bill to that patient.
C4_NoBillForDeceased ==
    [][last'.op \in {"generate_bill", "generate_bills_from_procedures"} =>
          \A i \in Indexes :
              patients[i].status = "death" =>
                  patients'[i].billing = patients[i].billing]_vars

\* C6: generate_bill appends exactly one bill; with a coverage c > 0 its
\* amount is amount * (1 - c/100) and its description carries the
\* percentage, with c = 0 it has the raw amount and the plain description.
C6_InsuranceDiscount ==
    [][(last'.op = "generate_bill" /\ last'.result = "billed") =>
          LET p == ByOid(last'.oid)
              q == ByOidNext(last'.oid)
              c == p.insurance.coverage_percent
              bill == q.billing[Len(q.billing)]
          IN  /\ Len(q.billing) = Len(p.billing) + 1
              /\ SubSeq(q.billing, 1, Len(p.billing)) = p.billing
              /\ ~bill.paid
              /\ c > 0 => /\ 100 * bill.amount = last'.arg * (100 - c)
                          /\ \E text \in BillTexts :
                                bill.description = DiscountDesc(text, c)
              /\ c = 0 => /\ bill.amount = last'.arg
                          /\ \E text \in BillTexts :
                                bill.description = PlainDesc(text)]_vars

\* 1000 billed to a patient covered at 20 percent is stored as 800
C6_Witness ==
    /\ last.op = "generate_bill"
    /\ last.result = "billed"
    /\ last.arg = 1000 * Scale
    /\ \E i \in Indexes :
          /\ patients[i].oid = last.oid
          /\ patients[i].insurance.coverage_percent = 20
          /\ patients[i].billing[Len(patients[i].billing)].amount = 800 * Scale

\* C7: a billed flag never goes back to false, generate_bills_from_procedures
\* appends one bill per procedure it marks and marks only unbilled ones, and
\* when every procedure is already billed it appends nothing and changes
\* nothing.
C7_BilledOnce ==
    [][last'.op # "load_data" =>
          /\ \A i \in Indexes :
                (i <= Len(patients') /\ patients'[i].oid = patients[i].oid) =>
                    \A k \in 1..Len(patients[i].procedures) :
                        patients[i].procedures[k].billed =>
                            /\ k <= Len(patients'[i].procedures)
                            /\ patients'[i].procedures[k].billed
          /\ (last'.op = "generate_bills_from_procedures" /\ last'.oid # 0) =>
                LET p == ByOid(last'.oid)
                    q == ByOidNext(last'.oid)
                    marked == {k \in 1..Len(p.procedures) :
                                  ~p.procedures[k].billed /\ q.procedures[k].billed}
                IN  /\ Len(q.procedures) = Len(p.procedures)
                    /\ Len(q.billing) = Len(p.billing) + Cardinality(marked)
                    /\ (\A k \in 1..Len(p.procedures) : p.procedures[k].billed)
                          => (patients' = patients /\ db' = db)]_vars

\* a second call after every procedure was billed: nothing left to bill
C7_Witness ==
    /\ last.op = "generate_bills_from_procedures"
    /\ last.result = "no unbilled"
    /\ \E i \in Indexes :
          /\ patients[i].oid = last.oid
          /\ Len(patients[i].procedures) = MaxProcs
          /\ \A k \in 1..Len(patients[i].procedures) : patients[i].procedures[k].billed
          /\ Len(patients[i].billing) >= MaxProcs

\* C3: when option 4 is given, for a patient it finds, a room that another
\* patient occupies, the assignment fails: the room index entry of that
\* room still names the occupant and the room_number of the patient is
\* unchanged.
C3_OccupiedRoomRejected ==
    [][(last'.op = "assign_room" /\ last'.oid # 0) =>
          LET room_number == last'.arg
              occupied ==
                  /\ room_number \in DOMAIN rooms
                  /\ \E i \in Indexes :
                        /\ patients[i].oid # last'.oid
                        /\ patients[i].room_number = room_number
                        /\ rooms[room_number] = patients[i].name
          IN  occupied =>
                  /\ last'.result # "assigned"
                  /\ rooms'[room_number] = rooms[room_number]
                  /\ ByOidNext(last'.oid).room_number
                        = ByOid(last'.oid).room_number]_vars

StaffFields ==
    {"name", "age", "position", "phone_number", "date_of_birth", "gender",
     "email", "address", "identifier"}

\* the names of the patients of a department, as save_data lists them
DeptPatientNames(pats, det, dept) ==
    [i \in 1..Len(dept.patients) |-> PatientObj(pats, det, dept.patients[i]).name]

\* the staff list of a department has the same members with the same
\* fields, those with position doctor or nurse are in the doctor or nurse
\* roster
RosterPreserved(before, after) ==
    /\ Len(after.staff) = Len(before.staff)
    /\ \A i \in 1..Len(before.staff) :
          LET b == before.objs[before.staff[i]]
              a == after.objs[after.staff[i]]
          IN  /\ \A f \in StaffFields : a[f] = b[f]
              /\ Lower(b.position) = "doctor" => after.staff[i] \in SeqRange(after.doctors)
              /\ Lower(b.position) = "nurse" => after.staff[i] \in SeqRange(after.nurses)

\* C9: when the file holds what save_data wrote, load_data gives the same
\* departments, each with the same staff members field by field, the
\* doctors and nurses among them in the doctor and nurse rosters, and the
\* same patient list.
C9_RosterRoundTrip ==
    [][(/\ last'.op = "load_data"
        /\ db = save_data(patients, departments, detached))
       => /\ DOMAIN departments' = DOMAIN departments
          /\ \A name \in DOMAIN departments :
                /\ RosterPreserved(departments[name], departments'[name])
                /\ DeptPatientNames(patients', detached', departments'[name])
                      = DeptPatientNames(patients, detached, departments[name])]_vars

\* C11: when option 4 finds a patient whose status is death, the
\* assignment is refused: the patients (so the room_number of that
\* patient), the room index and the document are the same after the
\* attempt as before it.
C11_NoRoomForDeceased ==
    [][(/\ last'.op = "assign_room"
        /\ last'.oid # 0
        /\ ByOid(last'.oid).status = "death")
       => /\ last'.result = "deceased"
          /\ patients' = patients
          /\ rooms' = rooms
          /\ db' = db]_vars

\* room 204 was refused to a deceased patient while another patient has a
\* room
C11_Witness ==
    /\ last.op = "assign_room"
    /\ last.result = "deceased"
    /\ last.arg = 204
    /\ \E i \in Indexes :
          /\ patients[i].oid = last.oid
          /\ patients[i].status = "death"
          /\ patients[i].room_number # 204
    /\ \E r \in DOMAIN rooms : r # 204

\* the options that change patients, rooms or departments
MutatingOps ==
    {"add_patient", "assign_room", "generate_bill", "mark_bill_paid",
     "add_department", "add_staff", "assign_doctor", "edit_patient",
     "remove_patient", "edit_staff", "remove_staff", "update_patient_status",
     "add_procedure", "generate_bills_from_procedures"}

\* how an option that did its work ends
Completed == {"added", "assigned", "billed", "paid", "updated", "removed"}

\* C12: after every mutating operation that runs to completion, and after
\* every step of such an operation that changes the patients, the room
\* index or the departments without raising, the document is what
\* save_data writes for the in-memory state.
C12_SavedAfterMutation ==
    [][(/\ last'.op \in MutatingOps
        /\ \/ last'.result \in Completed
           \/ /\ last'.result # "crashed"
              /\ <<patients, rooms, departments, detached>>'
                    # <<patients, rooms, departments, detached>>)
       => db' = save_data(patients', departments', detached')]_vars

\* bills were generated from procedures for a patient a doctor of a
\* department has been assigned, and the document holds them
C12_Witness ==
    /\ last.op = "generate_bills_from_procedures"
    /\ last.result = "billed"
    /\ \E i \in Indexes :
          /\ patients[i].oid = last.oid
          /\ patients[i].billing # <<>>
          /\ \E name \in DOMAIN departments :
                patients[i].oid \in SeqRange(departments[name].patients)
    /\ db = save_data(patients, departments, detached)

\* C13: after load_data on a file that is absent or cannot be parsed as a
\* document, load_data has not raised, the process runs, and the patient
\* list, the room index and the departments are empty.
C13_LoadNeverRaises ==
    (last.op = "load_data" /\ db.kind # "doc") =>
        /\ last.result = "loaded"
        /\ running
        /\ patients = <<>>
        /\ rooms = <<>>
        /\ departments = <<>>

\* C14: mark_bill_paid with a typed index i on a patient it found: when
\* 0 <= i < len(billing) the paid flag of bill i is set, nothing else of
\* any bill or patient changes, and the document is written; when i is out
\* of range, when the text is not an integer and when there is no bill,
\* no patient changes and the document is not written.
C14_MarkBillPaid ==
    [][(last'.op = "mark_bill_paid" /\ last'.oid # 0) =>
          LET k == CHOOSE j \in Indexes : patients[j].oid = last'.oid
              i == last'.arg
              typed == last'.result \in {"paid", "invalid index"}
          IN  IF typed /\ 0 <= i /\ i < Len(patients[k].billing)
              THEN /\ last'.result = "paid"
                   /\ patients' = [patients EXCEPT ![k].billing[i + 1].paid = TRUE]
                   /\ db' = save_data(patients', departments', detached')
              ELSE /\ last'.result # "paid"
                   /\ patients' = patients
                   /\ db' = db]_vars

\* the second of two bills was marked paid while the first is unpaid
C14_Witness ==
    /\ last.op = "mark_bill_paid"
    /\ last.result = "paid"
    /\ last.arg = 1
    /\ \E j \in Indexes :
          /\ patients[j].oid = last.oid
          /\ Len(patients[j].billing) = 2
          /\ ~patients[j].billing[1].paid
          /\ patients[j].billing[2].paid

\* a negative index was refused for a patient who has bills
C14_WitnessRefused ==
    /\ last.op = "mark_bill_paid"
    /\ last.result = "invalid index"
    /\ last.arg = -1
    /\ \E j \in Indexes : patients[j].oid = last.oid /\ patients[j].billing # <<>>

\* what C15 says of option 21 given a department name, a doctor name and
\* the patient Alice
AssignDoctorOutcome(dept_name, doctor_name) ==
    LET found == {j \in Indexes : patients[j].name = Alice}
        oid == patients[CHOOSE j \in found : TRUE].oid
        named == IF dept_name \in DOMAIN departments
                 THEN {k \in SeqRange(departments[dept_name].doctors) :
                          departments[dept_name].objs[k].name = doctor_name}
                 ELSE {}
    IN  found # {} =>
           /\ patients' = patients
           /\ IF named = {}
              THEN /\ last'.result \in {"no department", "no doctor"}
                   /\ departments' = departments
                   /\ db' = db
              ELSE /\ last'.result = "assigned"
                   /\ \E k \in named :
                         departments' =
                            [departments EXCEPT
                                ![dept_name].patients = Append(@, oid),
                                ![dept_name].objs[k].patients = Append(@, oid)]

\* C15: option 21 changes no patient list when the department does not
\* exist or has no doctor of the given name in its doctor list; otherwise
\* it appends the patient once to the patient list of that doctor and once
\* to the patient list of the department, also when the patient is already
\* in them.
C15_AssignDoctor ==
    [][\A dept_name \in TypedDepartments, doctor_name \in TypedDoctors :
          MenuAssignDoctor(dept_name, doctor_name, Alice)
             => AssignDoctorOutcome(dept_name, doctor_name)]_vars

\* the patient was assigned to the same doctor twice
C15_Witness ==
    /\ last.op = "assign_doctor"
    /\ last.result = "assigned"
    /\ \E name \in DOMAIN departments :
          /\ departments[name].patients = <<last.oid, last.oid>>
          /\ \E k \in SeqRange(departments[name].doctors) :
                departments[name].objs[k].patients = <<last.oid, last.oid>>

\* the patient was refused a nurse of the department as doctor
C15_WitnessRefused ==
    /\ last.op = "assign_doctor"
    /\ last.result = "no doctor"
    /\ \E name \in DOMAIN departments :
          \E k \in SeqRange(departments[name].nurses) :
             departments[name].objs[k].name = "Joy"

\* C16: every patient of the registry that has a room is named by the room
\* index under that room, and no two patients of the registry have the
\* same room.
C16_RoomIndexAgrees ==
    /\ \A i \in Indexes :
          TruthyRoom(patients[i].room_number) =>
             /\ patients[i].room_number \in DOMAIN rooms
             /\ rooms[patients[i].room_number] = patients[i].name
    /\ \A i, j \in Indexes :
          (i # j /\ TruthyRoom(patients[i].room_number)) =>
             patients[i].room_number # patients[j].room_number

DistinctIdentifiers(pats) ==
    \A i, j \in 1..Len(pats) : i # j => pats[i].identifier # pats[j].identifier

\* C17: an add_patient with an identifier a patient already has leaves the
\* registry unchanged, and no add_patient or edit_patient on a registry
\* whose identifiers are distinct leaves two patients with the same
\* identifier.
C17_UniqueIdentifiers ==
    [][last'.op \in {"add_patient", "edit_patient"} =>
          /\ last'.result = "duplicate identifier" => patients' = patients
          /\ DistinctIdentifiers(patients) => DistinctIdentifiers(patients')]_vars

\* C18: the status of every patient is one of normal, surgery, emergency
\* and death.
C18_ValidStatus ==
    \A i \in Indexes : patients[i].status \in ValidStatuses

C20_DeathHasDate ==
    \A i \in Indexes :
        patients[i].status = "death" => patients[i].date_of_death \notin {NoneStr, ""}

\* what C21 expects of option 18 when amounts are the lines typed at its
\* amount prompts: every bill it appends has the amount generate_bill
\* would store for that patient and the amount typed for the procedure
ProcedureBillOutcome(amounts) ==
    LET i == find_patient(patients, Alice)
    IN  i # 0 =>
           LET p == patients[i]
               q == patients'[i]
               entered == {k \in 1..Len(p.procedures) :
                              ~p.procedures[k].billed /\ amounts[k].kind = "ok"}
           IN  p.insurance.coverage_percent > 0 =>
                  \A j \in (Len(p.billing) + 1)..Len(q.billing) :
                      \E k \in entered, text \in BillTexts :
                          q.billing[j].amount = NewBill(p, amounts[k].val, text).amount

\* C21: for a patient with coverage_percent c > 0, the bill that
\* generate_bills_from_procedures creates for a procedure with the entered
\* amount a has the amount generate_bill would store, a * (1 - c/100).
C21_ProcedureBillDiscounted ==
    [][\A amounts \in [1..MaxProcs -> ProcedureAmounts] :
          MenuGenerateBillsFromProcedures(Alice, amounts)
             => ProcedureBillOutcome(amounts)]_vars

----------------------------------------------------------------------------
(* procedures: one patient gets procedures with different descriptions,    *)
(* and option 18 is answered with valid and invalid amounts                *)

ProcedureForms ==
    {AddForm(Alice, "ID1", Blank, "yes", "no", Blank),
     AddForm(Alice, "ID1", Blank, "yes", "yes", Ok(20))}
ProcedureTexts == {"Scan", "Lab"}
EnteredAmounts == {Ok(500 * Scale), Ok(300 * Scale), Bad}

AddBilledStep ==
    \E in \in ProcedureForms : patients = <<>> /\ MenuAddPatient(in)
DescribeProcedureStep ==
    \E text \in ProcedureTexts :
        /\ \A i \in 1..Len(patients) : Len(patients[i].procedures) < MaxProcs
        /\ MenuAddProcedure(Alice, "2025-04-01", text)
EnterAmountsStep ==
    \E amounts \in [1..MaxProcs -> EnteredAmounts] :
        MenuGenerateBillsFromProcedures(Alice, amounts)

ProceduresNext ==
    \/ AddBilledStep
    \/ DescribeProcedureStep
    \/ EnterAmountsStep

SpecProcedures == LifeInit /\ [][ProceduresNext]_vars

\* the procedures of p that are unbilled and get a valid amount
Entered(p, amounts) ==
    {k \in 1..Len(p.procedures) :
        ~p.procedures[k].billed /\ amounts[k].kind = "ok"}

\* the j-th element, in increasing order, of a set of indexes
Nth(S, j) == CHOOSE k \in S : Cardinality({m \in S : m <= k}) = j

\* what option 18 leaves when amounts are the lines typed at its prompts
SkipOutcome(amounts) ==
    LET i == find_patient(patients, Alice)
    IN  (i # 0 /\ \E k \in 1..Len(patients[i].procedures) :
                     ~patients[i].procedures[k].billed) =>
           LET p == patients[i]
               q == patients'[i]
               valid == Entered(p, amounts)
           IN  /\ Len(q.procedures) = Len(p.procedures)
               /\ \A k \in 1..Len(p.procedures) :
                     /\ q.procedures[k].billed =
                           (p.procedures[k].billed \/ k \in valid)
                     /\ q.procedures[k].description = p.procedures[k].description
                     /\ q.procedures[k].date = p.procedures[k].date
               /\ Len(q.billing) = Len(p.billing) + Cardinality(valid)
               /\ SubSeq(q.billing, 1, Len(p.billing)) = p.billing
               /\ \A j \in 1..Cardinality(valid) :
                     LET k == Nth(valid, j)
                         bill == q.billing[Len(p.billing) + j]
                     IN  /\ bill.amount = amounts[k].val
                         /\ bill.description =
                               ProcedureDesc(p.procedures[k].description,
                                             p.procedures[k].date)
                         /\ ~bill.paid
               /\ db' = save_data(patients', departments', detached')

----------------------------------------------------------------------------
(* amounts and coverage: the numbers typed at the coverage prompts of      *)
(* options 3 and 11 and at the amount prompts of options 5 and 18 are any  *)
(* text float() accepts, negative numbers and numbers over 100 included    *)

TypedCoverages == {Ok(20), Ok(150), Ok(-5), Bad}

CoverageForms ==
    {AddForm(Alice, "ID1", Blank, "yes", "yes", c) : c \in TypedCoverages}
    \cup {AddForm(Alice, "ID1", Blank, "yes", "no", Blank)}

CoverageEdits ==
    {[BlankEdit EXCEPT !.has_insurance = "yes", !.coverage = c] :
        c \in TypedCoverages \cup {Blank}}
    \cup {[BlankEdit EXCEPT !.has_insurance = "no"], BlankEdit}

SignedAmounts == {Ok(1000 * Scale), Ok(-50 * Scale), Bad}

AddCoveredStep ==
    \E in \in CoverageForms : patients = <<>> /\ MenuAddPatient(in)
EditCoverageStep ==
    \E in \in CoverageEdits : MenuEditPatient(Alice, in)
SignedBillStep ==
    \E amount \in SignedAmounts, text \in BillTexts :
        /\ \A i \in 1..Len(patients) : Len(patients[i].billing) < MaxBills
        /\ MenuGenerateBill(Alice, amount, text)
SignedProcedureBillStep ==
    \E amounts \in [1..MaxProcs -> SignedAmounts] :
        /\ \A i \in 1..Len(patients) : Len(patients[i].billing) < MaxBills
        /\ MenuGenerateBillsFromProcedures(Alice, amounts)

AmountsNext ==
    \/ AddCoveredStep
    \/ EditCoverageStep
    \/ SignedBillStep
    \/ AddProcedureStep
    \/ SignedProcedureBillStep
    \/ Start

SpecAmounts == LifeInit /\ [][AmountsNext]_vars

\* C24: every Billing record stored on a patient has a non-negative amount,
\* whatever amounts and coverage percentages were entered.
C24_AmountsNonNegative ==
    \A i \in Indexes :
        \A j \in 1..Len(patients[i].billing) : patients[i].billing[j].amount >= 0

\* C25: every patient's insurance coverage_percent lies in [0, 100] in every
\* reachable state.
C25_CoverageInRange ==
    \A i \in Indexes :
        /\ patients[i].insurance.coverage_percent >= 0
        /\ patients[i].insurance.coverage_percent <= 100

\* C26: every patient in memory has a next-of-kin record with the four
\* fields name, number, email and relation; construction, loading and
\* edit_patient never leave the record absent.
C26_KinAlwaysPresent ==
    \A i \in Indexes :
        /\ patients[i].patient_next_of_kin.isdict
        /\ DOMAIN patients[i].patient_next_of_kin =
              {"isdict", "name", "number", "email", "relation"}

\* C27: a malformed age given to edit_patient aborts the edit with no state
\* change: the patient's name, age and every other field, and the persisted
\* document, are the same after the failed edit as before it.
C27_BadAgeChangesNothing ==
    [][\A id \in TypedIdentifiers, in \in EditForms :
          (in.age.kind = "bad" /\ find_patient(patients, id) # 0
              /\ MenuEditPatient(id, in))
             => (patients' = patients /\ rooms' = rooms /\ db' = db)]_vars

\* C28: a patient number is never issued twice.  issued is the number the
\* previous successful add_patient was given, so in particular the number
\* given to a newly added patient differs from it, whether or not that
\* earlier patient has been removed since.
C28_NeverReissued ==
    [][(last'.op = "add_patient" /\ last'.result = "added") =>
          issued' # issued]_vars

----------------------------------------------------------------------------
(* namesakes: add_patient compares identifiers only, so two patients may  *)
(* have the same name; option 15 is then given a name or a number          *)

NamesakeForms ==
    {AddForm(Alice, "ID1", Blank, "yes", "no", Blank),
     AddForm(Alice, "ID2", Blank, "yes", "no", Blank),
     AddForm(Bob, "ID3", Blank, "yes", "no", Blank)}

SelectIdentifiers == {Alice, N1001, N1002}

AddNamesakeStep == \E in \in NamesakeForms : WithinBounds /\ MenuAddPatient(in)
SelectStatusStep ==
    \E id \in SelectIdentifiers, st \in TypedStatuses, date \in TypedDates :
        MenuUpdateStatus(id, st, date)

NamesNext ==
    \/ AddNamesakeStep
    \/ SelectStatusStep

SpecNames == LifeInit /\ [][NamesNext]_vars

\* C29: when option 15 is given a patient number and a valid status, it is
\* the patient with that number whose status and date_of_death change, and
\* no other patient's, even when another patient has the same name.
C29_StatusOfSelected ==
    [][\A st \in ValidStatuses, date \in TypedDates :
          LET i == find_patient(patients, N1002)
          IN  (i # 0 /\ MenuUpdateStatus(N1002, st, date)) =>
                 /\ Len(patients') = Len(patients)
                 /\ patients'[i].status = st
                 /\ patients'[i].date_of_death =
                       IF st = "death" THEN date ELSE NoneStr
                 /\ \A j \in Indexes : j # i => patients'[j] = patients[j]]_vars

\* C30: in every reachable state each department's doctor and nurse rosters
\* are contained in its combined staff list, so a doctor removed by
\* remove_staff_from_department is no longer in the doctor roster.
C30_RostersWithinStaff ==
    \A name \in DOMAIN departments :
        /\ SeqRange(departments[name].doctors) \subseteq SeqRange(departments[name].staff)
        /\ SeqRange(departments[name].nurses) \subseteq SeqRange(departments[name].staff)

====
